---- MODULE Spec2Model ----
(***************************************************************************)
(* The native shell of FatturaAnalyzer v2 (src-tauri/src/main.rs): the six *)
(* commands exposed to the embedded UI, the backend health probe, and the  *)
(* window lifecycle (setup at boot, the close-request handler).            *)
(*                                                                         *)
(* A string of the program is a sequence of code points: an ASCII code     *)
(* point is written as itself, any other one by its name ("U+2705").       *)
(* Console output (println!) is not part of the state.                     *)
(***************************************************************************)
EXTENDS Naturals, Sequences, FiniteSets, TLC

\* Bounds of the model.
MaxInv == 2
MaxClose == 2

VARIABLES
    build,      \* the build the process runs: target constants and the debug flag
    lifecycle,  \* "Starting", "Running", "ClosingRequested", "Terminated", "Fatal", "Aborted"
    startup,    \* what setup met: "pending", "no_window", "title_failed", "ok"
    title,      \* the main window's title
    devtools,   \* whether the developer tools were opened
    closeLog,   \* the calls the close-request handler made, in order
    closeQueue, \* forced closes accepted by the runtime and not yet carried out
    calls,      \* the command invocations issued by the UI, in order of issue
    requests    \* the HTTP requests put on the wire so far

vars == <<build, lifecycle, startup, title, devtools, closeLog, closeQueue, calls, requests>>

procVars == <<build, lifecycle, startup, title, devtools, closeLog, closeQueue>>

----------------------------------------------------------------------------
\* Strings

Contains(s, t) ==
    \E k \in 0..(Len(s) - Len(t)) : SubSeq(s, k + 1, k + Len(t)) = t

DigitChar(d) == <<"0", "1", "2", "3", "4", "5", "6", "7", "8", "9">>[d + 1]

RECURSIVE Digits(_)
Digits(n) == IF n < 10 THEN <<DigitChar(n)>> ELSE Digits(n \div 10) \o <<DigitChar(n % 10)>>

----------------------------------------------------------------------------
\* Command results: Result<T, String>

Ok(v) == [tag |-> "Ok", value |-> v]

Err(m) == [tag |-> "Err", error |-> m]

NoResult == [tag |-> "None"]

Unit == <<>>

----------------------------------------------------------------------------
\* The backend, as the health probe sees it

HealthRequest == [method |-> "GET", url |-> "http://127.0.0.1:8000/health"]

Statuses == {200, 300, 503}

Bodies == {<<>>, <<"O", "K">>}

TransportErrors == {
    <<"c", "o", "n", "n", "e", "c", "t", "i", "o", "n", " ", "r", "e", "f", "u", "s", "e", "d">>,
    <<"d", "n", "s", " ", "e", "r", "r", "o", "r">> }

BodyErrors == {
    <<"e", "r", "r", "o", "r", " ", "d", "e", "c", "o", "d", "i", "n", "g", " ",
      "r", "e", "s", "p", "o", "n", "s", "e", " ", "b", "o", "d", "y">> }

TimedOut == <<"o", "p", "e", "r", "a", "t", "i", "o", "n", " ", "t", "i", "m", "e", "d", " ", "o", "u", "t">>

\* What reading the body of a response as text gives.
BodyReads ==
    {[ok |-> TRUE, text |-> t] : t \in Bodies} \cup {[ok |-> FALSE, err |-> e] : e \in BodyErrors}

NoBody == [ok |-> FALSE, err |-> <<>>]

\* What the backend does with one request: the transport fails, a response
\* (its status line and headers) arrives, or nothing ever comes back.
Answers ==
    {[kind |-> "error", desc |-> e] : e \in TransportErrors}
    \cup {[kind |-> "response", status |-> s] : s \in Statuses}
    \cup {[kind |-> "silent"]}

NoAnswer == [kind |-> "none"]

\* is_success taken to include the redirections.
IsSuccessBelow400(status) == 200 <= status /\ status < 400

\* StatusCode::is_success
IsSuccess(status) == 200 <= status /\ status < 300

\* StatusCode's canonical reason phrase
Reason(status) ==
    CASE status = 200 -> <<"O", "K">>
      [] status = 300 -> <<"M", "u", "l", "t", "i", "p", "l", "e", " ", "C", "h", "o", "i", "c", "e", "s">>
      [] status = 503 -> <<"S", "e", "r", "v", "i", "c", "e", " ", "U", "n", "a", "v", "a", "i", "l", "a", "b", "l", "e">>
      [] OTHER -> <<"<", "u", "n", "k", "n", "o", "w", "n", " ", "s", "t", "a", "t", "u", "s", " ", "c", "o", "d", "e", ">">>

\* response.status() formatted with {}
StatusText(status) == Digits(status) \o <<" ">> \o Reason(status)

ConnectedPrefix ==
    <<"U+2705", " ", "B", "a", "c", "k", "e", "n", "d", " ", "c", "o", "n", "n", "e", "c", "t", "e", "d", ":", " ">>

StatusPrefix ==
    <<"U+274C", " ", "B", "a", "c", "k", "e", "n", "d", " ", "r", "e", "t", "u", "r", "n", "e", "d", " ",
      "s", "t", "a", "t", "u", "s", ":", " ">>

FailedPrefix ==
    <<"U+274C", " ", "C", "o", "n", "n", "e", "c", "t", "i", "o", "n", " ", "f", "a", "i", "l", "e", "d", ":", " ">>

----------------------------------------------------------------------------
\* The build: env::consts of the target, the versions, cfg!(debug_assertions)

Targets == {
    [os |-> "linux", arch |-> "x86_64", family |-> "unix",
     exe_suffix |-> "", dll_prefix |-> "lib", dll_suffix |-> ".so"],
    [os |-> "windows", arch |-> "x86_64", family |-> "windows",
     exe_suffix |-> ".exe", dll_prefix |-> "", dll_suffix |-> ".dll"] }

\* A debug build for one target, a release build for the other.
Builds ==
    {[target |-> t, version |-> "CARGO_PKG_VERSION", tauri_version |-> "tauri::version()",
      debug |-> (t.os = "linux")] : t \in Targets}

AppTitle == "FatturaAnalyzer v2"

\* An app info record that counts the invocations issued so far.
AppInfoCounting ==
    [name |-> "FatturaAnalyzer v2",
     version |-> build.version,
     tauri_version |-> build.tauri_version,
     platform |-> build.target.os,
     arch |-> build.target.arch,
     debug |-> build.debug,
     invocations |-> Len(calls)]

\* The record get_app_info builds.
AppInfo ==
    [name |-> "FatturaAnalyzer v2",
     version |-> build.version,
     tauri_version |-> build.tauri_version,
     platform |-> build.target.os,
     arch |-> build.target.arch,
     debug |-> build.debug]

\* The record get_system_info builds.
SystemInfo ==
    [os |-> build.target.os,
     arch |-> build.target.arch,
     family |-> build.target.family,
     exe_suffix |-> build.target.exe_suffix,
     dll_prefix |-> build.target.dll_prefix,
     dll_suffix |-> build.target.dll_suffix]

----------------------------------------------------------------------------
\* The command surface

Commands ==
    {"app_ready", "test_backend_connection", "get_app_info", "open_external_url",
     "show_notification", "get_system_info"}

Urls == {"https://example.com/docs"}

Notifications == {[title |-> "", body |-> ""]}

\* The valid arguments of each command.
ArgsOf(cmd) ==
    CASE cmd = "open_external_url" -> {[url |-> u] : u \in Urls}
      [] cmd = "show_notification" -> Notifications
      [] OTHER -> {Unit}

\* What handing a URL to the OS can give: shell::open's Result.
OpenOutcomes ==
    {[ok |-> TRUE],
     [ok |-> FALSE,
      err |-> <<"f", "a", "i", "l", "e", "d", " ", "t", "o", " ", "o", "p", "e", "n">>]}

NewCall(cmd, args) ==
    [cmd |-> cmd, args |-> args, pc |-> "spawned", sent |-> <<>>, answer |-> NoAnswer,
     read |-> FALSE, body |-> NoBody, result |-> NoResult]

\* The event loop runs, and with it the UI and the async runtime.
Alive == lifecycle \in {"Running", "ClosingRequested"}

Finish(c, r) == [c EXCEPT !.pc = "done", !.result = r]

----------------------------------------------------------------------------
\* test_backend_connection

\* The success message without the body.
ConnectedMessageNoBody(text) == ConnectedPrefix

\* format!("... Backend connected: {}", text)
ConnectedMessage(text) == ConnectedPrefix \o text

\* format!("... Backend returned status: {}", response.status())
StatusMessage(status) == StatusPrefix \o StatusText(status)

\* The failure message without the error.
FailedMessageBare(e) == FailedPrefix

\* format!("... Connection failed: {}", e)
FailedMessage(e) == FailedPrefix \o e

\* A client with a timeout: a send the backend never answers resolves too.
SendResolvesWithTimeout(a) == TRUE

\* The client is reqwest::Client::new(): no timeout is configured, so the
\* awaited send resolves only when the backend, or the transport, answers.
SendResolves(a) == a.kind # "silent"

\* The error an Err(e) of send() describes.
SendError(a) == IF a.kind = "error" THEN a.desc ELSE TimedOut

\* The match on the awaited send(), up to the next suspension point.
AfterSend(c) ==
    LET a == c.answer IN
    IF a.kind = "response"
    THEN IF IsSuccess(a.status)
         THEN [c EXCEPT !.pc = "await_text", !.read = TRUE]
         ELSE Finish(c, Err(StatusMessage(a.status)))
    ELSE Finish(c, Err(FailedMessage(SendError(a))))

\* response.text().await.map_err(|e| e.to_string())? and the Ok(format!(..)) after it.
AfterText(c, b) ==
    IF b.ok
    THEN Finish([c EXCEPT !.body = b], Ok(ConnectedMessage(b.text)))
    ELSE Finish([c EXCEPT !.body = b], Err(b.err))

----------------------------------------------------------------------------
\* Startup

\* get_window("main").unwrap() and set_title(..).unwrap(): what setup meets.
SetupOutcome(windowAvail, titleOk) ==
    IF ~windowAvail THEN "no_window" ELSE IF ~titleOk THEN "title_failed" ELSE "ok"

\* Setup that goes on whatever it met.
SetupLifecycleIgnoringFailure(outcome) == "Running"

\* A failed unwrap panics in setup; otherwise setup returns Ok(()) and the app runs.
SetupLifecycle(outcome) == IF outcome = "ok" THEN "Running" ELSE "Fatal"

Init ==
    /\ build \in Builds
    /\ lifecycle = "Starting"
    /\ startup = "pending"
    /\ title = ""
    /\ devtools = FALSE
    /\ closeLog = <<>>
    /\ closeQueue = 0
    /\ calls = <<>>
    /\ requests = 0

\* The setup closure, run once at boot.
Setup ==
    /\ lifecycle = "Starting"
    /\ \E windowAvail \in BOOLEAN, titleOk \in BOOLEAN :
         LET outcome == SetupOutcome(windowAvail, titleOk) IN
         /\ startup' = outcome
         /\ title' = IF outcome = "ok" THEN AppTitle ELSE title
         /\ devtools' = (outcome = "ok" /\ build.debug)
         /\ lifecycle' = SetupLifecycle(outcome)
    /\ UNCHANGED <<build, closeLog, closeQueue, calls, requests>>

----------------------------------------------------------------------------
\* Window events

CloseEvents == Cardinality({k \in 1..Len(closeLog) : closeLog[k] = "prevent_close"})

CloseAttempts == Cardinality({k \in 1..Len(closeLog) : closeLog[k] = "close"})

\* A close-request handler that suppresses the default close and leaves it at that.
CloseRequestedNoForce ==
    /\ Alive
    /\ CloseEvents < MaxClose
    /\ closeLog' = closeLog \o <<"prevent_close">>
    /\ UNCHANGED <<build, lifecycle, startup, title, devtools, closeQueue, calls, requests>>

\* WindowEvent::CloseRequested: api.prevent_close(), then event.window().close().unwrap().
\* close() hands the runtime a request to destroy the window; its failure panics.
CloseRequested ==
    /\ Alive
    /\ CloseEvents < MaxClose
    /\ closeLog' = closeLog \o <<"prevent_close", "close">>
    /\ \E closeOk \in BOOLEAN :
         IF closeOk
         THEN lifecycle' = "ClosingRequested" /\ closeQueue' = closeQueue + 1
         ELSE lifecycle' = "Aborted" /\ closeQueue' = closeQueue
    /\ UNCHANGED <<build, startup, title, devtools, calls, requests>>

\* Any other window event: the `_ => {}` arm.
OtherWindowEvent ==
    /\ Alive
    /\ UNCHANGED vars

\* The runtime carries out a forced close: the main window is destroyed and the
\* application ends.
WindowClosed ==
    /\ lifecycle = "ClosingRequested"
    /\ closeQueue > 0
    /\ closeQueue' = closeQueue - 1
    /\ lifecycle' = "Terminated"
    /\ UNCHANGED <<build, startup, title, devtools, closeLog, calls, requests>>

----------------------------------------------------------------------------
\* Commands

\* The UI invokes a registered command with valid arguments; the handler is
\* spawned as a task of its own.
Invoke ==
    /\ Alive
    /\ Len(calls) < MaxInv
    /\ \E cmd \in Commands : \E args \in ArgsOf(cmd) :
         calls' = Append(calls, NewCall(cmd, args))
    /\ UNCHANGED <<procVars, requests>>

\* The handler of call i can be polled.
Runnable(i, cmd, pc) ==
    /\ Alive
    /\ i \in 1..Len(calls)
    /\ calls[i].cmd = cmd
    /\ calls[i].pc = pc

AppReady(i) ==
    /\ Runnable(i, "app_ready", "spawned")
    /\ calls' = [calls EXCEPT ![i] =
                   Finish(@, Ok("App initialized successfully"))]
    /\ UNCHANGED <<procVars, requests>>

GetAppInfo(i) ==
    /\ Runnable(i, "get_app_info", "spawned")
    /\ calls' = [calls EXCEPT ![i] = Finish(@, Ok(AppInfo))]
    /\ UNCHANGED <<procVars, requests>>

\* shell::open(..).map_err(|e| e.to_string())?; Ok(())
OpenResult(outcome) == IF outcome.ok THEN Ok(Unit) ELSE Err(outcome.err)

\* shell::open(..).unwrap(): a failed hand-off panics in the handler.
OpenExternalUrlUnwrap(i) ==
    /\ Runnable(i, "open_external_url", "spawned")
    /\ \E outcome \in OpenOutcomes :
         calls' = [calls EXCEPT ![i] =
                     IF outcome.ok THEN Finish(@, Ok(Unit)) ELSE [@ EXCEPT !.pc = "panicked"]]
    /\ UNCHANGED <<procVars, requests>>

OpenExternalUrl(i) ==
    /\ Runnable(i, "open_external_url", "spawned")
    /\ \E outcome \in OpenOutcomes :
         calls' = [calls EXCEPT ![i] = Finish(@, OpenResult(outcome))]
    /\ UNCHANGED <<procVars, requests>>

ShowNotification(i) ==
    /\ Runnable(i, "show_notification", "spawned")
    /\ calls' = [calls EXCEPT ![i] = Finish(@, Ok(Unit))]
    /\ UNCHANGED <<procVars, requests>>

GetSystemInfo(i) ==
    /\ Runnable(i, "get_system_info", "spawned")
    /\ calls' = [calls EXCEPT ![i] = Finish(@, Ok(SystemInfo))]
    /\ UNCHANGED <<procVars, requests>>

\* Client::new() and client.get(..).send(): one GET goes out, and the handler
\* suspends on it.  The backend's answer to this request is drawn here.
TestBackendSend(i) ==
    /\ Runnable(i, "test_backend_connection", "spawned")
    /\ \E a \in Answers :
         calls' = [calls EXCEPT ![i] =
                     [@ EXCEPT !.pc = "await_send",
                               !.sent = Append(@, HealthRequest),
                               !.answer = a]]
    /\ requests' = requests + 1
    /\ UNCHANGED procVars

\* The awaited send() resolves, and anything but a success status is tried again.
TestBackendResponseRetrying(i) ==
    /\ Runnable(i, "test_backend_connection", "await_send")
    /\ SendResolves(calls[i].answer)
    /\ LET a == calls[i].answer IN
       IF a.kind = "response" /\ IsSuccess(a.status)
       THEN calls' = [calls EXCEPT ![i] = AfterSend(@)] /\ requests' = requests
       ELSE /\ \E b \in Answers :
                 calls' = [calls EXCEPT ![i] =
                             [@ EXCEPT !.sent = Append(@, HealthRequest), !.answer = b]]
            /\ requests' = requests + 1
    /\ UNCHANGED procVars

\* The awaited send() resolves.
TestBackendResponse(i) ==
    /\ Runnable(i, "test_backend_connection", "await_send")
    /\ SendResolves(calls[i].answer)
    /\ calls' = [calls EXCEPT ![i] = AfterSend(@)]
    /\ UNCHANGED <<procVars, requests>>

\* The awaited text() resolves: the body was read as text, or reading it failed.
TestBackendText(i) ==
    /\ Runnable(i, "test_backend_connection", "await_text")
    /\ \E b \in BodyReads : calls' = [calls EXCEPT ![i] = AfterText(@, b)]
    /\ UNCHANGED <<procVars, requests>>

Step(i) ==
    \/ AppReady(i)
    \/ GetAppInfo(i)
    \/ OpenExternalUrl(i)
    \/ ShowNotification(i)
    \/ GetSystemInfo(i)
    \/ TestBackendSend(i)
    \/ TestBackendResponse(i)
    \/ TestBackendText(i)

Next ==
    \/ Setup
    \/ CloseRequested
    \/ OtherWindowEvent
    \/ WindowClosed
    \/ Invoke
    \/ \E i \in 1..MaxInv : Step(i)

Spec == Init /\ [][Next]_vars

\* The async runtime does not idle while a task can run, and the event loop
\* carries out a forced close it accepted.
LiveSpec ==
    /\ Spec
    /\ WF_vars(\E i \in 1..MaxInv : Step(i))
    /\ WF_vars(WindowClosed)

----------------------------------------------------------------------------
\* Properties

Issued == 1..Len(calls)

Probes == {i \in Issued : calls[i].cmd = "test_backend_connection"}

Done(i) == i \in Issued /\ calls[i].pc = "done"

\* The decimal text of the status codes of the model.
CodeText(status) ==
    CASE status = 200 -> <<"2", "0", "0">>
      [] status = 300 -> <<"3", "0", "0">>
      [] status = 503 -> <<"5", "0", "3">>

Answered2xx(c) == c.answer.kind = "response" /\ c.answer.status \in 200..299

AnsweredNon2xx(c) == c.answer.kind = "response" /\ c.answer.status \notin 200..299

\* C1: a finished health probe is a success exactly when a response arrived,
\* its status is a 2xx status and its body was read as text; the success string
\* then contains the body as it was read; a failed body read after a 2xx status
\* is an error.
C1_SuccessIffBodyRead ==
    \A i \in Probes :
      LET c == calls[i] IN
      c.pc = "done" =>
        /\ c.result.tag = "Ok" <=> (Answered2xx(c) /\ c.read /\ c.body.ok)
        /\ c.result.tag = "Ok" => Contains(c.result.value, c.body.text)
        /\ (Answered2xx(c) /\ ~c.body.ok) => c.result.tag = "Err"

C1_Witness ==
    \E i \in Probes :
      /\ calls[i].pc = "done"
      /\ calls[i].answer = [kind |-> "response", status |-> 200]
      /\ calls[i].body = [ok |-> TRUE, text |-> <<"O", "K">>]
      /\ calls[i].result.tag = "Ok"
      /\ Contains(calls[i].result.value, <<"O", "K">>)

\* C2: a health probe that received a response with a non-2xx status never
\* reads the body and never succeeds, and once finished it holds an error whose
\* message carries the status code.
C2_BadStatusIsError ==
    \A i \in Probes :
      LET c == calls[i] IN
      AnsweredNon2xx(c) =>
        /\ ~c.read
        /\ c.pc \in {"await_send", "done"}
        /\ c.result.tag # "Ok"
        /\ c.pc = "done" =>
             /\ c.result.tag = "Err"
             /\ Contains(c.result.error, CodeText(c.answer.status))

C2_Witness ==
    \E i \in Probes :
      /\ calls[i].pc = "done"
      /\ calls[i].answer = [kind |-> "response", status |-> 503]
      /\ calls[i].result.tag = "Err"
      /\ Contains(calls[i].result.error, <<"5", "0", "3">>)

\* C3: a health probe whose GET failed at the transport level never succeeds,
\* and once finished it holds an error carrying the description of the failure.
C3_TransportFailureIsError ==
    \A i \in Probes :
      LET c == calls[i] IN
      c.answer.kind = "error" =>
        /\ c.result.tag # "Ok"
        /\ ~c.read
        /\ c.pc = "done" =>
             /\ c.result.tag = "Err"
             /\ Contains(c.result.error, c.answer.desc)

C3_Witness ==
    \E i \in Probes :
      /\ calls[i].pc = "done"
      /\ calls[i].answer.kind = "error"
      /\ calls[i].result.tag = "Err"
      /\ Contains(calls[i].result.error,
                  <<"c", "o", "n", "n", "e", "c", "t", "i", "o", "n", " ", "r", "e", "f", "u", "s", "e", "d">>)

\* C4: whatever close-request events arrive, only the first one causes a
\* termination attempt: the window is forced closed at most once.
C4_SingleTerminationAttempt == CloseAttempts <= 1

\* C5: the lifecycle is past Starting only with the main window acquired and its
\* title set; when the window is unavailable or setting the title fails, startup
\* is fatal and Running is never reached.
C5_RunningOnlyAfterSetup ==
    /\ lifecycle \in {"Running", "ClosingRequested", "Terminated", "Aborted"} =>
         startup = "ok" /\ title = "FatturaAnalyzer v2"
    /\ startup \in {"no_window", "title_failed"} => lifecycle = "Fatal"
    /\ lifecycle = "Starting" <=> startup = "pending"

C5_Witness == startup = "title_failed" /\ lifecycle = "Fatal" /\ calls = <<>>

\* C6: every invocation of one of the six commands that completes holds exactly
\* one result, a success or an error string, an unfinished one holds none, and
\* no handler panics.
C6_ExactlyOneResult ==
    \A i \in Issued :
      LET c == calls[i] IN
      /\ c.cmd \in {"app_ready", "test_backend_connection", "get_app_info",
                    "open_external_url", "show_notification", "get_system_info"}
      /\ c.pc # "panicked"
      /\ c.pc = "done" =>
           \/ c.result.tag = "Ok" /\ DOMAIN c.result = {"tag", "value"}
           \/ c.result.tag = "Err" /\ DOMAIN c.result = {"tag", "error"}
      /\ c.pc # "done" => c.result = [tag |-> "None"]

C6_Witness ==
    \E i \in Issued :
      /\ calls[i].cmd = "open_external_url"
      /\ calls[i].pc = "done"
      /\ calls[i].result.tag = "Err"

\* A probe suspended on a send the backend never answers.
Hung(i) ==
    /\ i \in Probes
    /\ calls[i].pc = "await_send"
    /\ calls[i].answer.kind = "silent"

\* An invocation that is issued, unfinished and not hung.
Pending(j) == j \in Issued /\ calls[j].pc # "done" /\ ~Hung(j)

\* C7: a health probe whose backend never answers stays pending for ever, and
\* blocks nothing: while the application runs, every other unfinished
\* invocation can take its next step and a close request can be handled, and
\* every other invocation completes with a result unless it hangs on a silent
\* backend itself or the application ends first (stated as a recurrence: again
\* and again no invocation but the hung ones is unfinished; an invocation that
\* is issued and neither unfinished nor hung is done).
C7_HungProbeBlocksNothing ==
    /\ [][\A i \in 1..MaxInv : Hung(i) => Hung(i)']_vars
    /\ [](\A i \in 1..MaxInv :
            (Hung(i) /\ Alive) =>
              /\ CloseEvents < MaxClose => ENABLED CloseRequested
              /\ \A j \in 1..MaxInv : Pending(j) => ENABLED Step(j))
    /\ [](\A j \in 1..MaxInv : Done(j) => calls[j].result.tag \in {"Ok", "Err"})
    /\ []<>(~Alive \/ \A j \in 1..MaxInv : ~Pending(j))

C7_Witness ==
    \E i \in Probes : \E j \in Probes :
      /\ Hung(i)
      /\ i < j
      /\ calls[j].pc = "done"
      /\ calls[j].result.tag = "Ok"
      /\ lifecycle = "ClosingRequested"

\* C8: any two finished invocations of get_app_info hold identical records, and
\* so do any two of get_system_info, whatever happened between them; and the
\* step of such an invocation changes nothing but the invocation's own record.
C8_InfoCommandsPure ==
    /\ [](\A i \in Issued : \A j \in Issued :
            (/\ calls[i].cmd \in {"get_app_info", "get_system_info"}
             /\ calls[j].cmd = calls[i].cmd
             /\ calls[i].pc = "done"
             /\ calls[j].pc = "done")
            => (calls[i].result.tag = "Ok" /\ calls[i].result = calls[j].result))
    /\ [][\A i \in Issued :
            (/\ calls[i].cmd \in {"get_app_info", "get_system_info"}
             /\ calls[i].pc # "done"
             /\ calls'[i].pc = "done")
            => (/\ UNCHANGED <<build, lifecycle, startup, title, devtools,
                               closeLog, closeQueue, requests>>
                /\ Len(calls') = Len(calls)
                /\ \A k \in Issued : k # i => calls'[k] = calls[k])]_vars

C8_Witness ==
    /\ Len(calls) = 2
    /\ calls[1].cmd = "get_app_info"
    /\ calls[2].cmd = "get_app_info"
    /\ calls[1].pc = "done"
    /\ calls[2].pc = "done"
    /\ calls[1].result = calls[2].result
    /\ lifecycle = "ClosingRequested"

\* Forced closes the runtime accepted.
AcceptedCloses == closeQueue + (IF lifecycle = "Terminated" THEN 1 ELSE 0)

\* C9: every close request is handled by suppressing the default close and then
\* forcing the window closed; once one was handled the application is never
\* Running again: a forced close is under way or was carried out, or, when the
\* forced close failed, the process aborted; and the application then ends
\* with no further input (a handled close request stays handled and an ended
\* application stays ended, so "leads to" is stated as a recurrence).
C9_CloseIsUnconditional ==
    /\ [](/\ \A k \in 1..Len(closeLog) :
               closeLog[k] = (IF k % 2 = 1 THEN "prevent_close" ELSE "close")
          /\ Len(closeLog) % 2 = 0
          /\ Len(closeLog) > 0 => lifecycle \in {"ClosingRequested", "Terminated", "Aborted"}
          /\ lifecycle = "ClosingRequested" => closeQueue > 0
          /\ CloseAttempts > AcceptedCloses <=> lifecycle = "Aborted")
    /\ [][Len(closeLog) > 0 => Len(closeLog') > 0]_vars
    /\ [][(lifecycle \in {"Terminated", "Aborted"}) => (lifecycle' = lifecycle)]_vars
    /\ []<>(Len(closeLog) = 0 \/ lifecycle \in {"Terminated", "Aborted"})

C9_Witness ==
    /\ lifecycle = "Terminated"
    /\ closeLog = <<"prevent_close", "close">>

\* What of the backend's answer a probe's result depends on: the transport
\* error, the status of a non-2xx response, the body read of a 2xx response.
Observed(c) ==
    IF c.answer.kind = "error" THEN <<"error", c.answer.desc>>
    ELSE IF AnsweredNon2xx(c) THEN <<"status", c.answer.status>>
    ELSE <<"body", c.body>>

\* C10: every health probe that started has sent exactly one request, a GET to
\* http://127.0.0.1:8000/health, whatever its outcome; the requests on the wire
\* are as many as the probes started; and two finished probes whose backends
\* answered differently (another transport error, another non-2xx status,
\* another body read of a 2xx response) hold different results.
C10_OneRequestPerProbe ==
    /\ \A i \in Probes :
         /\ calls[i].pc = "spawned" => calls[i].sent = <<>>
         /\ calls[i].pc # "spawned" =>
              calls[i].sent = <<[method |-> "GET", url |-> "http://127.0.0.1:8000/health"]>>
    /\ requests = Cardinality({i \in Probes : calls[i].pc # "spawned"})
    /\ \A i \in Probes : \A j \in Probes :
         (/\ calls[i].pc = "done"
          /\ calls[j].pc = "done"
          /\ Observed(calls[i]) # Observed(calls[j]))
         => calls[i].result # calls[j].result

C10_Witness ==
    /\ Len(calls) = 2
    /\ calls[1].cmd = "test_backend_connection"
    /\ calls[2].cmd = "test_backend_connection"
    /\ calls[1].pc = "done"
    /\ calls[2].pc = "done"
    /\ calls[1].result.tag = "Err"
    /\ calls[2].result.tag = "Ok"
    /\ requests = 2

====
